---- MODULE Spec2Model ----
(***************************************************************************)
(* A model of rplace.cpp: the Place object (update log, per-user cooldown  *)
(* map, working snapshot, shared "recent" snapshot) accessed by threads    *)
(* that call Place::update and Place::getCurrentState under one            *)
(* std::shared_mutex.                                                      *)
(*                                                                         *)
(* Scaling.  The source fixes a 1000 x 1000 grid, a republish distance of  *)
(* 100 and 64-bit microsecond timestamps.  The model keeps the code but    *)
(* shrinks the numbers: a Width x Height grid, a republish distance of     *)
(* RepublishThreshold, and timestamps counted in units of 1'000'000 clock  *)
(* ticks in words of WordBits bits.                                        *)
(***************************************************************************)
EXTENDS Integers, Sequences, FiniteSets, TLC

\* ---------------------------------------------------------------- bounds
NumThreads   == 2      \* threads calling into the Place
MaxLog       == 2      \* accepted updates the model lets the log hold
RepublishThreshold == 1 \* republish distance (100 in the source)
Width        == 2      \* grid columns (1000 in the source)
Height       == 2      \* grid rows    (1000 in the source)
WordBits     == 9      \* width of a timestamp word (64 in the source)
StartTime    == 10     \* earliest reading of the system clock

\* ------------------------------------------------------ program constants
Cooldown     == 5      \* 5 * 1'000'000 ticks, in units of 1'000'000 ticks
DefaultColor == 0      \* Pixel::defaultColor

Modulus == 2 ^ WordBits
Threads == 1 .. NumThreads
NoThread == 0

\* ------------------------------------------------------------ value types
Pixel(x, y, color, userID) ==
    [x |-> x, y |-> y, color |-> color, userID |-> userID]

NoPixel == Pixel(-1, -1, 0, 0)

Update(recordNumber, timestamp, pixel) ==
    [recordNumber |-> recordNumber, timestamp |-> timestamp, pixel |-> pixel]

\* Faulty variant of PixelIndex: column-major.
PixelIndexTransposed(x, y) == x * Width + y + 1

\* Row-major position of (x, y) in Snapshot::pixels; sequences start at 1.
PixelIndex(x, y) == y * Width + x + 1

\* Snapshot::Snapshot(width, height): every pixel is Pixel(x, y, 0, defaultColor).
NewSnapshot ==
    [pixels |-> [i \in 1 .. Width * Height |->
                    Pixel((i - 1) % Width, (i - 1) \div Width, 0, DefaultColor)],
     recordNumber |-> 0]

NoSnapshot == [pixels |-> << >>, recordNumber |-> 0]

\* Faulty variants of ApplyFrom: one starts on the last update already applied,
\* one skips the first update not yet applied.
ApplyFromRedo(s) == IF s.recordNumber > 0 THEN s.recordNumber - 1 ELSE 0
ApplyFromSkip(s) == s.recordNumber + 1

\* First index the loop of Snapshot::apply visits.
ApplyFrom(s) == s.recordNumber

\* The indices (0-based) the loop of Snapshot::apply visits.
ApplyRange(s, log) == ApplyFrom(s) .. Len(log) - 1

\* The loop of Snapshot::apply, from index i (0-based) to the end of `log`.
RECURSIVE ApplyLoop(_, _, _)
ApplyLoop(pixels, log, i) ==
    IF i >= Len(log) THEN pixels
    ELSE ApplyLoop([pixels EXCEPT ![PixelIndex(log[i + 1].pixel.x, log[i + 1].pixel.y)]
                                      = log[i + 1].pixel],
                   log, i + 1)

\* Faulty variant of Apply: the record number is left as it was.
ApplyWithoutNumber(s, log) ==
    [pixels |-> ApplyLoop(s.pixels, log, ApplyFrom(s)), recordNumber |-> s.recordNumber]

\* Snapshot::apply(updates).
Apply(s, log) ==
    [pixels |-> ApplyLoop(s.pixels, log, ApplyFrom(s)), recordNumber |-> Len(log)]

\* ------------------------------------------------------------------ inputs
\* Clock readings (system_clock::now()), as offsets from StartTime.
Deltas == {0, 1, 3, 6, 301}
Times == {StartTime + d : d \in Deltas}

\* Pixels the callers submit: three that fit the grid and two that miss it.
PixelA == Pixel(1, 1, 5, 7)
PixelB == Pixel(1, 1, 9, 7)
PixelC == Pixel(0, 1, 3, 8)
InputPixels == {PixelA, PixelB, PixelC, Pixel(Width, 1, 9, 7), Pixel(0, Height, 3, 8)}

\* Faulty variant of OutOfBounds: off by one at the far edges.
OutOfBoundsStrict(px) == px.x > Width \/ px.y > Height

\* The bounds test of Place::update.
OutOfBounds(px) == px.x >= Width \/ px.y >= Height

VARIABLES
    updates,                  \* Place::updates
    mostRecentUpdatesPerUser, \* Place::mostRecentUpdatesPerUser (a partial map)
    workingSnapshot,          \* Place::workingSnapshot
    heap,                     \* the Snapshot objects made by make_shared
    recentSnapshot,           \* Place::recentSnapshot: an index into heap
    exclusiveOwner,           \* updateMutex: thread holding it exclusively
    sharedOwners,             \* updateMutex: threads holding it shared
    pc,                       \* where each thread is
    p,                        \* update: the argument, until the locked body returns
    currentTime,              \* update: the local currentTime
    result,                   \* update: the value returned
    recentCopy,               \* getCurrentState: the local recentCopy
    returnValue,              \* getCurrentState: the local returnValue
    observing,                \* observer: whether startLen and burst are kept
    startLen,                 \* observer: log length when a read was called
    sharedLen,                \* observer: log length when a read took the shared lock
    refreshLen,               \* observer: log length when a read's first block ended
    returned,                 \* observer: the calls that have returned so far
    seenAtCall,               \* observer: `returned` when a read was called
    burst,                    \* observer: the update calls so far, while they are
                              \*   by distinct users to distinct coordinates
    scen                      \* observer: progress through a scripted call sequence

vars == << updates, mostRecentUpdatesPerUser, workingSnapshot, heap, recentSnapshot,
           exclusiveOwner, sharedOwners, pc, p, currentTime, result, recentCopy,
           returnValue, observing, startLen, sharedLen, refreshLen, returned, seenAtCall,
           burst, scen >>

placeVars == << updates, mostRecentUpdatesPerUser, workingSnapshot, heap, recentSnapshot >>
mutexVars == << exclusiveOwner, sharedOwners >>
updLocals == << p, currentTime, result >>
getLocals == << recentCopy, returnValue >>
readObs   == << observing, startLen, sharedLen, refreshLen, returned, seenAtCall >>

\* ---------------------------------------------------------------- observers
\* Scripted call sequences: each call's operation, argument and the clock
\* reading of a write as an offset from the first write's reading.
WriteCall(px, dt) == [op |-> "write", px |-> px, dt |-> dt]
ReadCall == [op |-> "read", px |-> NoPixel, dt |-> 0]

Scripts ==
    [e2e  |-> << WriteCall(PixelA, 0), WriteCall(PixelB, 1), ReadCall,
                 WriteCall(PixelB, 301), ReadCall >>,
     test |-> << WriteCall(PixelC, 0), WriteCall(PixelC, 3), WriteCall(PixelC, 6) >>]

ScenStart == [id |-> "none", pos |-> 0, t0 |-> 0, outs |-> << >>]
ScenOff   == [id |-> "off",  pos |-> 0, t0 |-> 0, outs |-> << >>]

ScenLive == scen.id \notin {"none", "off"}

\* What a finished call gave its caller.
WriteOutcome(ok, seq) == [ok |-> ok, seq |-> seq, pixels |-> << >>]
ReadOutcome(s) == [ok |-> TRUE, seq |-> s.recordNumber, pixels |-> s.pixels]

\* Thread t makes a call: the script goes on if the call is its next one and
\* no other call is in progress.
ScenAfterCall(t, op, px) ==
    IF scen.id = "off" THEN scen
    ELSE IF \E u \in Threads \ {t} : pc[u] # "idle" THEN ScenOff
    ELSE IF scen.id = "none"
         THEN LET m == {id \in DOMAIN Scripts :
                          Scripts[id][1].op = op /\ Scripts[id][1].px = px}
              IN IF m = {} THEN ScenOff ELSE [scen EXCEPT !.id = CHOOSE id \in m : TRUE]
    ELSE IF /\ scen.pos < Len(Scripts[scen.id])
            /\ Scripts[scen.id][scen.pos + 1].op = op
            /\ Scripts[scen.id][scen.pos + 1].px = px
         THEN scen
         ELSE ScenOff

\* The scripted write reads the clock.
ScenAfterClock(now) ==
    IF ~ScenLive THEN scen
    ELSE IF scen.pos = 0 THEN [scen EXCEPT !.t0 = now]
    ELSE IF now = scen.t0 + Scripts[scen.id][scen.pos + 1].dt THEN scen
    ELSE ScenOff

\* The scripted call is done.
ScenAfterDone(outcome) ==
    IF ~ScenLive THEN scen
    ELSE [scen EXCEPT !.pos = @ + 1, !.outs = Append(@, outcome)]

\* The calls that have returned: how many updates returned true, and the
\* highest record number a read has returned.
NoneReturned == [accepted |-> 0, seq |-> 0]

AfterAccepted == IF observing THEN [returned EXCEPT !.accepted = @ + 1] ELSE returned

AfterRead(s) ==
    IF observing /\ s.recordNumber > returned.seq
    THEN [returned EXCEPT !.seq = s.recordNumber]
    ELSE returned

BurstStart == [ok |-> TRUE, calls |-> {}]
BurstOff   == [ok |-> FALSE, calls |-> {}]

\* An in-bounds update call is made.
BurstAfterCall(px) ==
    IF /\ burst.ok
       /\ \A q \in burst.calls : q.userID # px.userID /\ << q.x, q.y >> # << px.x, px.y >>
    THEN [burst EXCEPT !.calls = @ \cup {px}]
    ELSE BurstOff

\* Place::Place() and idle threads.
InitPlace ==
    /\ updates = << >>
    /\ mostRecentUpdatesPerUser = << >>
    /\ workingSnapshot = NewSnapshot
    /\ heap = << NewSnapshot >>
    /\ recentSnapshot = 1
    /\ exclusiveOwner = NoThread
    /\ sharedOwners = {}
    /\ pc = [t \in Threads |-> "idle"]
    /\ p = [t \in Threads |-> NoPixel]
    /\ currentTime = [t \in Threads |-> 0]
    /\ result = [t \in Threads |-> FALSE]
    /\ recentCopy = [t \in Threads |-> 0]
    /\ returnValue = [t \in Threads |-> NoSnapshot]
    /\ startLen = [t \in Threads |-> 0]
    /\ sharedLen = [t \in Threads |-> 0]
    /\ refreshLen = [t \in Threads |-> 0]
    /\ returned = NoneReturned
    /\ seenAtCall = [t \in Threads |-> NoneReturned]
    /\ scen = ScenStart

\* The program alone, and the program with every observer switched on.
Init == InitPlace /\ observing = FALSE /\ burst = BurstOff

InitObserved == InitPlace /\ observing = TRUE /\ burst = BurstStart

\* ------------------------------------------------------------- the mutex
\* Faulty variants of the mutex: a writer that does not wait for another
\* writer, a reader that does not wait for a writer.
CanLockExclusiveNoOwner == sharedOwners = {}
CanLockSharedAlways == TRUE

\* Faulty variants of the mutex: a writer that does not wait for readers, a
\* reader that waits for readers instead of for a writer.
CanLockExclusiveNoReaders == exclusiveOwner = NoThread
CanLockSharedNoReaders == sharedOwners = {}

\* std::unique_lock<std::shared_mutex>: nobody holds the mutex in any mode.
CanLockExclusive == exclusiveOwner = NoThread /\ sharedOwners = {}

\* std::shared_lock<std::shared_mutex>: nobody holds the mutex exclusively.
CanLockShared == exclusiveOwner = NoThread

\* Update calls that passed the bounds test and have not yet returned from
\* the locked body.
PendingUpdates == {t \in Threads : pc[t] \in {"u_lock", "u_cs", "u_write"}}

\* ---------------------------------------------------------- Place::update
\* The call and its bounds test, which runs before the mutex is taken.
UpdateCall(t, px) ==
    /\ pc[t] = "idle"
    /\ Len(updates) + Cardinality(PendingUpdates) < MaxLog
    /\ p' = [p EXCEPT ![t] = px]
    /\ IF OutOfBounds(px)
       THEN /\ pc' = [pc EXCEPT ![t] = "u_ret"]
            /\ result' = [result EXCEPT ![t] = FALSE]
            /\ scen' = ScenOff
            /\ UNCHANGED burst
       ELSE /\ pc' = [pc EXCEPT ![t] = "u_lock"]
            /\ scen' = ScenAfterCall(t, "write", px)
            /\ burst' = BurstAfterCall(px)
            /\ UNCHANGED result
    /\ UNCHANGED << placeVars, mutexVars, currentTime, getLocals, readObs >>

\* A reading of system_clock::now(): the clock is not behind the newest
\* timestamp of the log.
ClockReading(now) ==
    /\ now \in Times
    /\ updates # << >> => now >= updates[Len(updates)].timestamp

\* std::unique_lock<std::shared_mutex> lock(updateMutex), then the clock is read
\* into currentTime.
UpdateLock(t, now) ==
    /\ pc[t] = "u_lock"
    /\ CanLockExclusive
    /\ ClockReading(now)
    /\ exclusiveOwner' = t
    /\ currentTime' = [currentTime EXCEPT ![t] = now]
    /\ pc' = [pc EXCEPT ![t] = "u_cs"]
    /\ scen' = ScenAfterClock(now)
    /\ UNCHANGED << placeVars, sharedOwners, p, result, getLocals, readObs, burst >>

\* Faulty variants of InsideCooldown: one also rejects at exactly the cooldown,
\* one never rejects.
InsideCooldownInclusive(last, now) == last >= (now - Cooldown) % Modulus
InsideCooldownNever(last, now) == FALSE

\* recentUdpateIt->second > currentTime - 5'000'000, both sides unsigned words.
InsideCooldown(last, now) == last > (now - Cooldown) % Modulus

\* Faulty variant of AfterReject: a rejected attempt restarts the cooldown.
AfterRejectRestart(map, user, now) == [map EXCEPT ![user] = now]

\* The map after `return false`: the user's entry is left as it was.
AfterReject(map, user, now) == map

\* The map after recentUdpateIt->second = currentTime, or after emplace.
AfterAdmit(map, user, now) ==
    [u \in DOMAIN map \cup {user} |-> IF u = user THEN now ELSE map[u]]

\* Faulty variant of NextRecordNumber: numbering from 1.
NextRecordNumberFromOne(log) == Len(log) + 1

\* The record number emplace_back gives the new update: updates.size().
NextRecordNumber(log) == Len(log)

\* find() and the cooldown test.  Inside the cooldown the function returns
\* false, which releases the lock; otherwise it goes on to write.
UpdateCheck(t) ==
    /\ pc[t] = "u_cs"
    /\ LET user == p[t].userID
       IN IF /\ user \in DOMAIN mostRecentUpdatesPerUser
             /\ InsideCooldown(mostRecentUpdatesPerUser[user], currentTime[t])
          THEN /\ mostRecentUpdatesPerUser' =
                     AfterReject(mostRecentUpdatesPerUser, user, currentTime[t])
               /\ result' = [result EXCEPT ![t] = FALSE]
               /\ exclusiveOwner' = NoThread
               /\ currentTime' = [currentTime EXCEPT ![t] = 0]
               /\ pc' = [pc EXCEPT ![t] = "u_ret"]
               /\ p' = [p EXCEPT ![t] = NoPixel]
               /\ scen' = ScenAfterDone(WriteOutcome(FALSE, 0))
          ELSE /\ pc' = [pc EXCEPT ![t] = "u_write"]
               /\ UNCHANGED << mostRecentUpdatesPerUser, result, exclusiveOwner,
                               currentTime, p, scen >>
    /\ UNCHANGED << updates, workingSnapshot, heap, recentSnapshot, sharedOwners,
                    getLocals, readObs, burst >>

\* The user's map entry is set to currentTime, the update is appended, the
\* function returns true, which releases the lock.
UpdateWrite(t) ==
    /\ pc[t] = "u_write"
    /\ mostRecentUpdatesPerUser' =
          AfterAdmit(mostRecentUpdatesPerUser, p[t].userID, currentTime[t])
    /\ updates' = Append(updates, Update(NextRecordNumber(updates), currentTime[t], p[t]))
    /\ result' = [result EXCEPT ![t] = TRUE]
    /\ exclusiveOwner' = NoThread
    /\ currentTime' = [currentTime EXCEPT ![t] = 0]
    /\ pc' = [pc EXCEPT ![t] = "u_ret"]
    /\ p' = [p EXCEPT ![t] = NoPixel]
    /\ scen' = ScenAfterDone(WriteOutcome(TRUE, NextRecordNumber(updates)))
    /\ returned' = AfterAccepted
    /\ UNCHANGED << workingSnapshot, heap, recentSnapshot, sharedOwners, getLocals,
                    observing, startLen, sharedLen, refreshLen, seenAtCall, burst >>

\* The caller has the return value; the thread is free for its next call.
UpdateReturn(t) ==
    /\ pc[t] = "u_ret"
    /\ pc' = [pc EXCEPT ![t] = "idle"]
    /\ p' = [p EXCEPT ![t] = NoPixel]
    /\ result' = [result EXCEPT ![t] = FALSE]
    /\ UNCHANGED << placeVars, mutexVars, currentTime, getLocals, readObs, burst, scen >>

\* ------------------------------------------------- Place::getCurrentState
GetCall(t) ==
    /\ pc[t] = "idle"
    /\ pc' = [pc EXCEPT ![t] = "r_lock"]
    /\ startLen' = [startLen EXCEPT ![t] = IF observing THEN Len(updates) ELSE 0]
    /\ UNCHANGED observing
    /\ scen' = ScenAfterCall(t, "read", NoPixel)
    /\ seenAtCall' = [seenAtCall EXCEPT ![t] = returned]
    /\ UNCHANGED << placeVars, mutexVars, updLocals, getLocals, sharedLen, refreshLen,
                    returned, burst >>

\* std::unique_lock<std::shared_mutex> lock(updateMutex).
GetLock(t) ==
    /\ pc[t] = "r_lock"
    /\ CanLockExclusive
    /\ exclusiveOwner' = t
    /\ pc' = [pc EXCEPT ![t] = "r_cs"]
    /\ UNCHANGED << placeVars, sharedOwners, updLocals, getLocals, readObs, burst, scen >>

\* Faulty variant of Clone: the record number is copied, the pixels are not.
CloneWithoutPixels(s) == [pixels |-> NewSnapshot.pixels, recordNumber |-> s.recordNumber]

\* Snapshot's copy constructor.
Clone(s) == s

\* Faulty variant of ShouldRepublish: also at exactly the republish distance.
ShouldRepublishInclusive(working, recent) ==
    working.recordNumber >= recent.recordNumber + RepublishThreshold

\* Faulty variant of ShouldRepublish: the two record numbers change places.
ShouldRepublishSwapped(working, recent) ==
    recent.recordNumber > working.recordNumber + RepublishThreshold

\* Faulty variant of ShouldRepublish: the distance is added on the wrong side.
ShouldRepublishEveryRead(working, recent) ==
    working.recordNumber + RepublishThreshold > recent.recordNumber

\* workingSnapshot.recordNumber > recentSnapshot->recordNumber + 100.
ShouldRepublish(working, recent) ==
    working.recordNumber > recent.recordNumber + RepublishThreshold

\* Faulty variant of Republish: the object readers may still hold is overwritten.
RepublishInPlace(objects, recent, working) ==
    [heap |-> [objects EXCEPT ![recent] = Clone(working)], recent |-> recent]

\* recentSnapshot = std::make_shared<const Snapshot>(workingSnapshot): a new
\* object holds the copy and recentSnapshot refers to it; the old object stays
\* as it is for whoever still refers to it.
Republish(objects, recent, working) ==
    [heap |-> Append(objects, Clone(working)), recent |-> Len(objects) + 1]

\* Faulty variant of EndOfFirstBlock: the block has no scope of its own, so
\* the unique_lock lives on to the end of the function.
EndOfFirstBlockStillLocked(t) == t

\* The closing brace of the first block destroys its unique_lock: who holds the
\* mutex exclusively once thread t has left the block.
EndOfFirstBlock(t) == NoThread

\* The first block: catch the working snapshot up, maybe install a new recent
\* snapshot object, take a reference to the recent one, release the lock.
GetRefresh(t) ==
    /\ pc[t] = "r_cs"
    /\ LET working == Apply(workingSnapshot, updates)
       IN /\ workingSnapshot' = working
          /\ IF ShouldRepublish(working, heap[recentSnapshot])
             THEN /\ heap' = Republish(heap, recentSnapshot, working).heap
                  /\ recentSnapshot' = Republish(heap, recentSnapshot, working).recent
             ELSE UNCHANGED << heap, recentSnapshot >>
    /\ recentCopy' = [recentCopy EXCEPT ![t] = recentSnapshot']
    /\ exclusiveOwner' = EndOfFirstBlock(t)
    /\ pc' = [pc EXCEPT ![t] = "r_copy"]
    /\ refreshLen' = [refreshLen EXCEPT ![t] = IF observing THEN Len(updates) ELSE 0]
    /\ UNCHANGED << updates, mostRecentUpdatesPerUser, sharedOwners, updLocals,
                    returnValue, observing, startLen, sharedLen, returned, seenAtCall,
                    burst, scen >>

\* Snapshot returnValue = *recentCopy, with no lock held.
GetCopy(t) ==
    /\ pc[t] = "r_copy"
    /\ returnValue' = [returnValue EXCEPT ![t] = Clone(heap[recentCopy[t]])]
    /\ pc' = [pc EXCEPT ![t] = "r_slock"]
    /\ UNCHANGED << placeVars, mutexVars, updLocals, recentCopy, readObs, burst, scen >>

\* std::shared_lock<std::shared_mutex> lock(updateMutex).
GetSharedLock(t) ==
    /\ pc[t] = "r_slock"
    /\ CanLockShared
    /\ sharedOwners' = sharedOwners \cup {t}
    /\ sharedLen' = [sharedLen EXCEPT ![t] = Len(updates)]
    /\ pc' = [pc EXCEPT ![t] = "r_scs"]
    /\ UNCHANGED << placeVars, exclusiveOwner, updLocals, getLocals, observing, startLen,
                    refreshLen, returned, seenAtCall, burst, scen >>

\* returnValue.apply(updates), then the shared lock is released and the
\* function returns.
GetApply(t) ==
    /\ pc[t] = "r_scs"
    /\ returnValue' = [returnValue EXCEPT ![t] = Apply(returnValue[t], updates)]
    /\ recentCopy' = [recentCopy EXCEPT ![t] = 0]
    /\ sharedOwners' = sharedOwners \ {t}
    /\ pc' = [pc EXCEPT ![t] = "r_ret"]
    /\ scen' = ScenAfterDone(ReadOutcome(returnValue'[t]))
    /\ refreshLen' = [refreshLen EXCEPT ![t] = 0]
    /\ returned' = AfterRead(returnValue'[t])
    /\ UNCHANGED << placeVars, exclusiveOwner, updLocals, observing, startLen, sharedLen,
                    seenAtCall, burst >>

\* The caller has the snapshot; the thread is free for its next call.
GetReturn(t) ==
    /\ pc[t] = "r_ret"
    /\ pc' = [pc EXCEPT ![t] = "idle"]
    /\ returnValue' = [returnValue EXCEPT ![t] = NoSnapshot]
    /\ startLen' = [startLen EXCEPT ![t] = 0]
    /\ sharedLen' = [sharedLen EXCEPT ![t] = 0]
    /\ seenAtCall' = [seenAtCall EXCEPT ![t] = NoneReturned]
    /\ UNCHANGED << placeVars, mutexVars, updLocals, recentCopy, observing, refreshLen,
                    returned, burst, scen >>

Next ==
    \E t \in Threads :
        \/ \E px \in InputPixels : UpdateCall(t, px)
        \/ \E now \in Times : UpdateLock(t, now)
        \/ UpdateCheck(t)
        \/ UpdateWrite(t)
        \/ UpdateReturn(t)
        \/ GetCall(t)
        \/ GetLock(t)
        \/ GetRefresh(t)
        \/ GetCopy(t)
        \/ GetSharedLock(t)
        \/ GetApply(t)
        \/ GetReturn(t)

Spec == Init /\ [][Next]_vars

SpecObserved == InitObserved /\ [][Next]_vars

\* The steps of a call thread t has begun that wait for nothing.
Running(t) ==
    \/ UpdateCheck(t)
    \/ UpdateWrite(t)
    \/ UpdateReturn(t)
    \/ GetRefresh(t)
    \/ GetCopy(t)
    \/ GetApply(t)
    \/ GetReturn(t)

\* A thread that can run does run, and a thread waiting for the mutex gets it
\* if the mutex is free for it again and again (fair lock acquisition).
Fairness ==
    \A t \in Threads :
        /\ WF_vars(Running(t))
        /\ SF_vars(\E now \in Times : UpdateLock(t, now))
        /\ SF_vars(GetLock(t))
        /\ SF_vars(GetSharedLock(t))

SpecFair == Init /\ [][Next]_vars /\ Fairness

\* The cooldown test on its own.  A call of update by a user the map knows has
\* taken the lock and read the clock: the user's entry (the timestamp of the
\* user's one update in the log) and the clock reading are any two words with
\* the reading not before the entry.  The call then runs to its return.
Stamps == 0 .. Modulus - 1

InitCooldown ==
    /\ \E last \in Stamps : \E now \in last .. Modulus - 1 :
          /\ updates = << Update(0, last, PixelA) >>
          /\ mostRecentUpdatesPerUser = [u \in {PixelA.userID} |-> last]
          /\ currentTime = [t \in Threads |-> IF t = 1 THEN now ELSE 0]
    /\ workingSnapshot = NewSnapshot
    /\ heap = << NewSnapshot >>
    /\ recentSnapshot = 1
    /\ exclusiveOwner = 1
    /\ sharedOwners = {}
    /\ pc = [t \in Threads |-> IF t = 1 THEN "u_cs" ELSE "idle"]
    /\ p = [t \in Threads |-> IF t = 1 THEN PixelB ELSE NoPixel]
    /\ result = [t \in Threads |-> FALSE]
    /\ recentCopy = [t \in Threads |-> 0]
    /\ returnValue = [t \in Threads |-> NoSnapshot]
    /\ observing = FALSE
    /\ startLen = [t \in Threads |-> 0]
    /\ sharedLen = [t \in Threads |-> 0]
    /\ refreshLen = [t \in Threads |-> 0]
    /\ returned = NoneReturned
    /\ seenAtCall = [t \in Threads |-> NoneReturned]
    /\ burst = BurstOff
    /\ scen = ScenOff

NextCooldown ==
    \E t \in Threads :
        \/ UpdateCheck(t)
        \/ UpdateWrite(t)
        \/ UpdateReturn(t)

SpecCooldown == InitCooldown /\ [][NextCooldown]_vars

\* ===================================================================== claims
\* What the claims speak of, stated without the code's operators.
Max(S) == CHOOSE m \in S : \A n \in S : n <= m

Cells == 1 .. Width * Height

\* The cell of a coordinate, row-major.
CellOf(px) == px.y * Width + px.x + 1

InGrid(px) == px.x >= 0 /\ px.x < Width /\ px.y >= 0 /\ px.y < Height

\* The pixel of the highest-numbered update among the first n of the log that
\* targets cell c, or the cell's default.
LastWriteTo(c, n) ==
    LET S == {i \in 1 .. n : CellOf(updates[i].pixel) = c}
    IN IF S = {} THEN NewSnapshot.pixels[c] ELSE updates[Max(S)].pixel

Readers == {t \in Threads : pc[t] = "r_ret"}

\* ------------------------------------------------------------------------ C1
\* C1: a snapshot returned by getCurrentState carries the log length of the
\* instant the call took the shared lock, and each of its cells holds the pixel
\* of the last update below that number that targets the cell (the default if
\* there is none); later updates are not reflected.
C1_ReadConsistent ==
    \A t \in Readers :
        /\ returnValue[t].recordNumber = sharedLen[t]
        /\ sharedLen[t] <= Len(updates)
        /\ \A c \in Cells : returnValue[t].pixels[c] = LastWriteTo(c, sharedLen[t])

\* A read returned the state after update 0 although update 1, which overwrites
\* the same cell, is already in the log.
C1_Witness ==
    \E t \in Readers :
        /\ sharedLen[t] = 1
        /\ Len(updates) = 2
        /\ CellOf(updates[2].pixel) = CellOf(updates[1].pixel)
        /\ updates[2].pixel # updates[1].pixel
        /\ returnValue[t].pixels[CellOf(updates[1].pixel)] = updates[1].pixel

\* ------------------------------------------------------------------------ C2
\* C2: the i-th entry of the log has record number i (from 0), the log never
\* gets shorter, and an entry once appended is never changed or removed.
C2_LogNumbered ==
    /\ [](\A i \in 1 .. Len(updates) : updates[i].recordNumber = i - 1)
    /\ [][/\ Len(updates') >= Len(updates)
          /\ SubSeq(updates', 1, Len(updates)) = updates]_vars

\* Two writes were accepted with a rejected write and a read between them.
C2_Witness ==
    /\ scen.id = "e2e"
    /\ scen.pos = 4
    /\ Len(updates) = 2

C4_RejectChangesNothing ==
    [][\A t \in Threads :
          (pc[t] = "u_cs" /\ pc'[t] = "u_ret")
             => /\ result'[t] = FALSE
                /\ p[t].userID \in DOMAIN mostRecentUpdatesPerUser
                /\ currentTime[t] - mostRecentUpdatesPerUser[p[t].userID] < Cooldown
                /\ UNCHANGED placeVars]_vars

\* A write was rejected by the cooldown test at a later clock reading than the
\* user's accepted write.
C4_Witness ==
    \E t \in Threads :
        /\ pc[t] = "u_ret"
        /\ p[t] = NoPixel
        /\ result[t] = FALSE
        /\ scen.id = "e2e"
        /\ scen.pos = 2

\* ------------------------------------------------------------------------ C5
\* C5: a call of update with x >= width or y >= height returns false at once,
\* never reaches the lock, and changes neither the log nor the cooldown map,
\* also for a user the map does not know.
C5_OutOfBoundsRejected ==
    /\ [](\A t \in Threads : pc[t] \in {"u_lock", "u_cs", "u_write"} => InGrid(p[t]))
    /\ [][\A t \in Threads :
            /\ (pc[t] = "idle" /\ pc'[t] # "idle" /\ (p'[t].x >= Width \/ p'[t].y >= Height))
                  => /\ pc'[t] = "u_ret"
                     /\ result'[t] = FALSE
                     /\ UNCHANGED << updates, mostRecentUpdatesPerUser >>
            /\ (pc[t] = "u_ret" /\ pc'[t] # "u_ret")
                  => /\ pc'[t] = "idle"
                     /\ UNCHANGED << updates, mostRecentUpdatesPerUser >>]_vars

\* An out-of-bounds write by a user without a map entry was rejected while the
\* log held an update.
C5_Witness ==
    \E t \in Threads :
        /\ pc[t] = "u_ret"
        /\ ~InGrid(p[t])
        /\ p[t] # NoPixel
        /\ result[t] = FALSE
        /\ p[t].userID \notin DOMAIN mostRecentUpdatesPerUser
        /\ Len(updates) >= 1

\* ------------------------------------------------------------------------ C6
\* C6: while every update call so far was in bounds and by a user and to a
\* coordinate no earlier call had, each call that leaves the locked body
\* returns true; once none is pending the log holds exactly those calls'
\* pixels, one entry each; and a read shows, for every update that was in the
\* log when the read was called, that update's pixel in its cell.
C6_NoLostUpdates ==
    /\ [](burst.ok =>
            /\ PendingUpdates = {} =>
                  /\ Len(updates) = Cardinality(burst.calls)
                  /\ {updates[i].pixel : i \in 1 .. Len(updates)} = burst.calls
            /\ \A t \in Readers : \A i \in 1 .. startLen[t] :
                  returnValue[t].pixels[CellOf(updates[i].pixel)] = updates[i].pixel)
    /\ [][\A t \in Threads :
            (burst.ok /\ pc[t] \in {"u_cs", "u_write"} /\ pc'[t] = "u_ret")
               => result'[t] = TRUE]_vars

\* Two users wrote two cells, both calls were accepted, and a read called
\* after both returned shows both cells.
C6_Witness ==
    /\ burst.ok
    /\ Cardinality(burst.calls) = 2
    /\ Len(updates) = 2
    /\ \E t \in Readers :
          /\ startLen[t] = 2
          /\ \A u \in Threads \ {t} : pc[u] = "idle"
          /\ \A px \in burst.calls : returnValue[t].pixels[CellOf(px)] = px

\* ------------------------------------------------------------------------ C7
\* The reference read: an all-default grid to which the whole log is applied.
RECURSIVE NaiveCells(_, _)
NaiveCells(log, n) ==
    IF n = 0 THEN NewSnapshot.pixels
    ELSE [NaiveCells(log, n - 1) EXCEPT ![CellOf(log[n].pixel)] = log[n].pixel]

NaiveRead(log) == [pixels |-> NaiveCells(log, Len(log)), recordNumber |-> Len(log)]

\* C7: a snapshot returned by getCurrentState equals, in record number and in
\* every cell, what the reference read returns for the log of the instant the
\* call took the shared lock; working and recent snapshot change no result.
C7_TieringTransparent ==
    \A t \in Readers : returnValue[t] = NaiveRead(SubSeq(updates, 1, sharedLen[t]))

\* A read returned the whole log after the recent snapshot had been replaced.
C7_Witness ==
    \E t \in Readers :
        /\ Len(heap) >= 2
        /\ heap[recentSnapshot].recordNumber > 0
        /\ sharedLen[t] = Len(updates)
        /\ returnValue[t].pixels # NewSnapshot.pixels

\* ------------------------------------------------------------------------ C8
\* The snapshots of a state: the working one, the heap's, the readers' copies.
LiveSnapshots ==
    {workingSnapshot} \cup {heap[i] : i \in 1 .. Len(heap)}
        \cup {returnValue[t] : t \in {u \in Threads : pc[u] \in {"r_slock", "r_scs", "r_ret"}}}

LogPrefixes == {SubSeq(updates, 1, n) : n \in 0 .. Len(updates)}

LastAccepted(user) ==
    updates[Max({i \in 1 .. Len(updates) : updates[i].pixel.userID = user})].timestamp

OnlyCell11(pixels, color) ==
    /\ DOMAIN pixels = Cells
    /\ \A c \in Cells :
          pixels[c].color = IF c = CellOf(Pixel(1, 1, 0, 0)) THEN color ELSE DefaultColor

E2EExpected(i, out) ==
    CASE i = 1 -> out.ok = TRUE /\ out.seq = 0
      [] i = 2 -> out.ok = FALSE
      [] i = 3 -> out.seq = 1 /\ OnlyCell11(out.pixels, 5)
      [] i = 4 -> out.ok = TRUE /\ out.seq = 1
      [] i = 5 -> out.seq = 2 /\ OnlyCell11(out.pixels, 9)

Holders == {t \in Threads : pc[t] = "r_copy"}

\* C11: no step changes a snapshot object that exists, whether recentSnapshot
\* or a reader still refers to it: its cells and record number stay as they
\* were, whatever writes, catch-ups and republishes other threads perform; a
\* step that changes recentSnapshot makes it refer to an object that did not
\* exist before; and a reader's reference always names an existing object, the
\* one it copies from without a lock.
C11_PublishedFrozen ==
    /\ [](\A t \in Holders : recentCopy[t] \in 1 .. Len(heap))
    /\ [][/\ Len(heap') >= Len(heap)
          /\ \A i \in 1 .. Len(heap) : heap'[i] = heap[i]
          /\ recentSnapshot' # recentSnapshot => recentSnapshot' \notin 1 .. Len(heap)
          /\ \A t \in Holders :
                pc'[t] = "r_slock" => returnValue'[t] = heap[recentCopy[t]]]_vars

\* A reader still holds the first recent snapshot, untouched, after another
\* thread wrote two updates, caught the working snapshot up and republished.
C11_Witness ==
    \E t \in Holders :
        /\ recentCopy[t] # recentSnapshot
        /\ heap[recentCopy[t]] = NewSnapshot
        /\ heap[recentSnapshot].recordNumber = 2
        /\ workingSnapshot.recordNumber = 2

\* ----------------------------------------------------------------------- C12
\* A step in which thread t runs the first block of getCurrentState.
RefreshStep(t) == pc[t] = "r_cs" /\ pc'[t] = "r_copy"

\* How far the log is ahead of the recent snapshot.
Gap == Len(updates) - heap[recentSnapshot].recordNumber

\* The step replaces the recent snapshot by a copy of the caught-up working one.
Replaced ==
    /\ recentSnapshot' # recentSnapshot
    /\ heap'[recentSnapshot'] = workingSnapshot'

\* C12 as stated: the first block of a read catches the working snapshot up to
\* the log and replaces the recent snapshot by a copy of it whenever the
\* working snapshot is then at least the republish distance ahead, also at
\* exactly that distance, and leaves it alone when the distance is smaller.
C12_RepublishAtThreshold ==
    [][\A t \in Threads :
          RefreshStep(t) =>
             /\ workingSnapshot'.recordNumber = Len(updates)
             /\ IF Gap >= RepublishThreshold
                THEN Replaced
                ELSE UNCHANGED << heap, recentSnapshot >>]_vars

\* C12 amended: the recent snapshot is replaced whenever the working snapshot
\* is then more than the republish distance ahead, and left alone when it is
\* exactly that far ahead or less.
C12_RepublishPastThreshold ==
    [][\A t \in Threads :
          RefreshStep(t) =>
             /\ workingSnapshot'.recordNumber = Len(updates)
             /\ IF Gap > RepublishThreshold
                THEN Replaced
                ELSE UNCHANGED << heap, recentSnapshot >>]_vars

\* A read caught the working snapshot up to exactly the republish distance
\* ahead of the recent snapshot and kept the recent snapshot.
C12_Witness ==
    \E t \in Holders :
        /\ recentCopy[t] = recentSnapshot
        /\ workingSnapshot.recordNumber = Len(updates)
        /\ workingSnapshot.recordNumber - heap[recentSnapshot].recordNumber
              = RepublishThreshold

\* ----------------------------------------------------------------------- C13
\* A step in which thread t applies the log to its copy under the shared lock.
DeltaStep(t) == pc[t] = "r_scs" /\ pc'[t] = "r_ret"

\* C13: when the first block of a read ends, the log is at most the republish
\* distance ahead of the recent snapshot; and the updates the read then applies
\* to its copy under the shared lock number at most the republish distance
\* plus the updates accepted between the end of its first block and its taking
\* the shared lock.
C13_DeltaBounded ==
    [][\A t \in Threads :
          /\ RefreshStep(t) =>
                Len(updates') - heap'[recentSnapshot'].recordNumber <= RepublishThreshold
          /\ (observing /\ DeltaStep(t)) =>
                Cardinality(ApplyRange(returnValue[t], updates))
                   <= RepublishThreshold + (sharedLen[t] - refreshLen[t])]_vars

\* A read is about to apply the republish distance and one more update: the
\* recent snapshot it copied was the full distance behind, and one update was
\* accepted before it took the shared lock.
C13_Witness ==
    \E t \in Threads :
        /\ observing
        /\ pc[t] = "r_scs"
        /\ sharedLen[t] - refreshLen[t] = 1
        /\ Cardinality(ApplyRange(returnValue[t], updates)) = RepublishThreshold + 1

\* ----------------------------------------------------------------------- C14
\* C14: each recent snapshot object was made when the log had grown by at
\* least the republish distance since the object before it was made (the first
\* one at construction, with an empty log); a step replaces the recent
\* snapshot only when the log is that far ahead of it; and the first block of
\* a read that finds the log less than the republish distance ahead of the
\* recent snapshot makes no copy of the working snapshot.
C14_CloneRare ==
    /\ [](\A i \in 1 .. Len(heap) - 1 :
            heap[i + 1].recordNumber - heap[i].recordNumber >= RepublishThreshold)
    /\ [][/\ recentSnapshot' # recentSnapshot =>
                /\ Len(updates) - heap[recentSnapshot].recordNumber >= RepublishThreshold
                /\ heap'[recentSnapshot'].recordNumber = Len(updates)
          /\ \A t \in Threads :
                (RefreshStep(t) /\ Gap < RepublishThreshold)
                   => UNCHANGED << heap, recentSnapshot >>]_vars

\* The recent snapshot was replaced once, and two reads that came after, with
\* no update accepted since, both refer to that object: neither made another.
C14_Witness ==
    /\ Len(heap) = 2
    /\ heap[2].recordNumber = Len(updates)
    /\ Cardinality({t \in Holders : recentCopy[t] = 2}) >= 2

\* ----------------------------------------------------------------------- C15
\* C15: the recent snapshot's record number is at most the working snapshot's,
\* which is at most the log's length; neither record number ever decreases;
\* the working snapshot, every recent snapshot object and every reader's copy
\* hold in each cell the pixel of the last update numbered below their own
\* record number that targets the cell (the default if there is none); and
\* when the first block of a read ends the working snapshot's record number is
\* the log's length.
C15_SnapshotInvariants ==
    /\ [](/\ heap[recentSnapshot].recordNumber <= workingSnapshot.recordNumber
          /\ workingSnapshot.recordNumber <= Len(updates)
          /\ \A s \in LiveSnapshots :
                /\ s.recordNumber <= Len(updates)
                /\ \A c \in Cells : s.pixels[c] = LastWriteTo(c, s.recordNumber))
    /\ [][/\ workingSnapshot'.recordNumber >= workingSnapshot.recordNumber
          /\ heap'[recentSnapshot'].recordNumber >= heap[recentSnapshot].recordNumber
          /\ \A t \in Threads :
                RefreshStep(t) => workingSnapshot'.recordNumber = Len(updates')]_vars

\* The recent snapshot is behind the working snapshot, which is behind the
\* log, and a read has returned a copy that shows the first update.
C15_Witness ==
    /\ heap[recentSnapshot].recordNumber = 0
    /\ workingSnapshot.recordNumber = 1
    /\ workingSnapshot.pixels # NewSnapshot.pixels
    /\ Len(updates) = 2
    /\ \E t \in Readers :
          /\ returnValue[t].recordNumber = 1
          /\ returnValue[t].pixels = workingSnapshot.pixels

\* ----------------------------------------------------------------------- C16
\* A step in which thread t calls update and runs its bounds test.
BoundsStep(t) == pc[t] = "idle" /\ pc'[t] \in {"u_lock", "u_ret"}

\* Thread t has passed the bounds test of update and not yet returned from it.
PastBounds(t) == pc[t] \in {"u_lock", "u_cs", "u_write"}

\* Thread t is between the clock reading of update and its return.
InLockedBody(t) == pc[t] \in {"u_cs", "u_write"}

\* Thread u is in the locked body of update, in the first block of a read or
\* in its shared-lock block.
InGuardedPhase(u) == pc[u] \in {"u_cs", "u_write", "r_cs", "r_scs"}

DeltaReaders == {t \in Threads : pc[t] = "r_scs"}

\* C17: a thread inside the shared-lock block of a read holds the mutex shared
\* and nobody holds it exclusively; no thread is then in the locked body of
\* update or in the first block of a read; and no step taken while some thread
\* is inside that block changes the log, the working snapshot, or the recent
\* snapshot and its objects.  (That two readers can be inside the block
\* together is what C17_Witness reaches.)
C17_DeltaUnderSharedLock ==
    /\ [](\A t \in DeltaReaders :
            /\ t \in sharedOwners
            /\ exclusiveOwner = NoThread
            /\ \A u \in Threads : pc[u] \notin {"u_cs", "u_write", "r_cs"})
    /\ [][DeltaReaders # {} =>
            UNCHANGED << updates, workingSnapshot, heap, recentSnapshot >>]_vars

\* Two readers are inside the shared-lock block at once, both holding the
\* mutex shared, each about to apply an update to its copy.
C17_Witness ==
    /\ Cardinality(DeltaReaders) >= 2
    /\ DeltaReaders \subseteq sharedOwners
    /\ \A t \in DeltaReaders : returnValue[t].recordNumber < Len(updates)

\* ----------------------------------------------------------------------- C18
\* Thread t is inside a call.
InCall(t) == pc[t] # "idle"

\* Some step of the call thread t is inside can be taken.
CanProceed(t) ==
    \/ ENABLED Running(t)
    \/ ENABLED (\E now \in Times : UpdateLock(t, now))
    \/ ENABLED GetLock(t)
    \/ ENABLED GetSharedLock(t)

\* C18: with fair lock acquisition every call of update and of getCurrentState
\* that has begun returns; in no state are calls in progress of which none can
\* take a step; and a reader has given the exclusive lock back before it asks
\* for the shared one and never holds both.
C18_CallsReturn ==
    /\ \A t \in Threads : InCall(t) ~> ~InCall(t)
    /\ []((\E t \in Threads : InCall(t)) => (\E t \in Threads : InCall(t) /\ CanProceed(t)))
    /\ [](\A t \in Threads :
            /\ ~(exclusiveOwner = t /\ t \in sharedOwners)
            /\ pc[t] \in {"r_copy", "r_slock"} => (exclusiveOwner # t /\ t \notin sharedOwners))

\* One thread waits for the exclusive lock of update while the other holds
\* the mutex shared inside a read.
C18_Witness ==
    \E t \in Threads : \E u \in Threads \ {t} :
        /\ pc[t] = "u_lock"
        /\ pc[u] = "r_scs"
        /\ u \in sharedOwners
        /\ ~CanProceed(t)

\* ----------------------------------------------------------------------- C19
\* C19: for every entry of the map and every clock reading not before it, the
\* cooldown test of update rejects the call exactly when the reading is less
\* than a cooldown past the entry, also for readings smaller than the
\* cooldown, and admits it when the reading is exactly a cooldown past it.
C19_TestsAgree ==
    [][\A t \in Threads :
          (/\ pc[t] = "u_cs"
           /\ pc'[t] # "u_cs"
           /\ p[t].userID \in DOMAIN mostRecentUpdatesPerUser
           /\ currentTime[t] >= mostRecentUpdatesPerUser[p[t].userID])
             => ((pc'[t] = "u_ret" /\ result'[t] = FALSE)
                   <=> (currentTime[t] - mostRecentUpdatesPerUser[p[t].userID] < Cooldown))]_vars

\* ----------------------------------------------------------------------- C20
\* C20: the record number a read returns is at least the record number of
\* every read that had returned when it was called, and at least the number of
\* update calls that had returned true when it was called.
C20_ReadsMonotonic ==
    \A t \in Readers :
        /\ returnValue[t].recordNumber >= seenAtCall[t].seq
        /\ returnValue[t].recordNumber >= seenAtCall[t].accepted

\* A read returned record number 2; when it was called another read had
\* returned record number 1 and two updates had returned true.
C20_Witness ==
    \E t \in Readers :
        /\ observing
        /\ seenAtCall[t].seq = 1
        /\ seenAtCall[t].accepted = 2
        /\ returnValue[t].recordNumber = 2

====
